---- MODULE Spec2Model ----
(***************************************************************************)
(* Ledger of app.py: the dairy_entry table, the add-entry handler with its *)
(* due carry-forward, the clear_dues settlement handler and the daily      *)
(* summary handler.                                                        *)
(*                                                                         *)
(* Amounts are modelled as integers (exact arithmetic); the Float columns  *)
(* of the table are not modelled down to binary rounding.  Dates are day   *)
(* numbers, so "current_date - timedelta(days=1)" is d - 1.  Requests are  *)
(* served one at a time.                                                   *)
(***************************************************************************)
EXTENDS Integers, Sequences, FiniteSets, TLC

\* ---------------------------------------------------------------- bounds
\* Rows the table may hold.
MaxEntries == 3

\* Inputs of the forms.  Amounts are in rupees; a paid amount or a cash
\* income of 0 is one the form validation rejects.

Dates == {1, 2, 3}

Merchants == {"Ram", "Sita"}

Weights == {2}

Units == {"pcs"}

PaidInputs == {0, 100}

AmountInputs == {-10, 0, 30}

IncomeInputs == {0, 100}

\* ------------------------------------------------------------- constants
\* Two rows of the product catalog (item name -> price).
DAIRY_PRODUCTS == [i \in {"Milk (1 Litre)", "Curd (500g)"} |->
                     IF i = "Milk (1 Litre)" THEN 60 ELSE 45]

Items == DOMAIN DAIRY_PRODUCTS

\* ----------------------------------------------------------------- state
VARIABLES
    entries,     \* the committed dairy_entry table, in insertion order
    now,         \* last reading of datetime.utcnow
    pc,          \* "idle", or "loop" while clear_dues iterates
    sess,        \* clear_dues: the session's copy of the rows it mutates
    queue,       \* clear_dues: the entries still to visit, in query order
    remaining,   \* clear_dues: the local variable remaining
    last         \* the last request: what it was, the table before it, its outcome

vars == <<entries, now, pc, sess, queue, remaining, last>>

\* --------------------------------------------------------------- helpers
Min(a, b) == IF a <= b THEN a ELSE b

RECURSIVE SumOver(_, _, _)
\* sum(field(tbl[k]) for k in S), field given as a selector name
SumOver(tbl, S, field) ==
    IF S = {} THEN 0
    ELSE LET k == CHOOSE x \in S : TRUE
             v == CASE field = "cost" -> tbl[k].cost
                    [] field = "paid" -> tbl[k].paid
                    [] field = "due"  -> tbl[k].due
         IN v + SumOver(tbl, S \ {k}, field)

\* ------------------------------------------------ get_previous_dairy_due
\* Variant of PrevMatches: any earlier date instead of the day before.
PrevMatches_AnyEarlierDate(tbl, current_date, m_name, item) ==
    {k \in DOMAIN tbl : /\ tbl[k].date < current_date
                        /\ tbl[k].m_name = m_name
                        /\ tbl[k].item = item}

\* .filter(date == previous_date, m_name == m_name, item == item)
PrevMatches(tbl, current_date, m_name, item) ==
    {k \in DOMAIN tbl : /\ tbl[k].date = current_date - 1
                        /\ tbl[k].m_name = m_name
                        /\ tbl[k].item = item}

\* Variant of FirstByCreatedDesc: ascending order.
FirstByCreatedAsc(tbl, S) ==
    {k \in S : \A j \in S : tbl[j].created_at >= tbl[k].created_at}

\* .order_by(created_at.desc()).first(): the rows that can come first
\* (rows sharing the greatest created_at are in no defined order)
FirstByCreatedDesc(tbl, S) ==
    {k \in S : \A j \in S : tbl[j].created_at <= tbl[k].created_at}

\* the values the helper can return
get_previous_dairy_due(tbl, current_date, m_name, item) ==
    LET S == PrevMatches(tbl, current_date, m_name, item)
    IN IF S = {} THEN {0}
       ELSE {tbl[k].due : k \in FirstByCreatedDesc(tbl, S)}

\* ------------------------------------------------------- add_dairy_entry
\* created_at = datetime.utcnow(): the clock has not moved since the last
\* insert (0) or it has (1); only order and equality of timestamps matter,
\* so the first row's reading is fixed
UtcnowTicks(tbl) == IF tbl = <<>> THEN {1} ELSE {0, 1}

\* form.validate_on_submit(): DataRequired rejects a falsy (zero) number,
\* NumberRange(min=...) a smaller one; SelectField an unknown item.
AddFormValid(weight, price_per_unit, paid) ==
    /\ weight > 0
    /\ price_per_unit > 0
    /\ paid > 0

add_dairy_entry ==
    /\ pc = "idle"
    /\ Len(entries) < MaxEntries
    /\ \E entry_date \in Dates, m_name \in Merchants, item \in Items,
          weight \in Weights, unit \in Units, paid \in PaidInputs :
         LET price_per_unit == DAIRY_PRODUCTS[item]
         IN IF ~AddFormValid(weight, price_per_unit, paid)
            THEN /\ last' = [op |-> "add_invalid", pre |-> entries]
                 /\ UNCHANGED <<entries, now>>
            ELSE \E previous_due \in get_previous_dairy_due(entries, entry_date, m_name, item),
                    tick \in UtcnowTicks(entries) :
                   LET cost == price_per_unit * weight
                       current_due == (previous_due + cost) - paid
                       created == now + tick
                       new_dairy_entry ==
                           [id |-> Len(entries) + 1,
                            date |-> entry_date,
                            m_name |-> m_name,
                            item |-> item,
                            weight |-> weight,
                            unit |-> unit,
                            price_per_unit |-> price_per_unit,
                            cost |-> cost,
                            paid |-> paid,
                            due |-> current_due,
                            created_at |-> created]
                   IN /\ entries' = Append(entries, new_dairy_entry)
                      /\ now' = created
                      /\ last' = [op |-> "add", pre |-> entries]
    /\ UNCHANGED <<pc, sess, queue, remaining>>

\* ------------------------------------------------------------ clear_dues
\* Variant of DueEntries: the due > 0 filter left out.
DueEntries_NoDueFilter(tbl, m_name) ==
    {k \in DOMAIN tbl : tbl[k].m_name = m_name}

\* Variant of DueEntries: the merchant filter left out.
DueEntries_AnyMerchant(tbl, m_name) ==
    {k \in DOMAIN tbl : tbl[k].due > 0}

\* DairyEntry.query.filter_by(m_name=m_name).filter(DairyEntry.due > 0)
DueEntries(tbl, m_name) ==
    {k \in DOMAIN tbl : tbl[k].m_name = m_name /\ tbl[k].due > 0}

\* Variant of OrderByDate: descending date.
OrderByDate_Desc(tbl, S) ==
    {q \in [1..Cardinality(S) -> S] :
        /\ \A a, b \in 1..Cardinality(S) : a # b => q[a] # q[b]
        /\ \A a, b \in 1..Cardinality(S) : a < b => tbl[q[a]].date >= tbl[q[b]].date}

\* .order_by(DairyEntry.date).all(): every listing of S by ascending date;
\* rows of equal date come in no defined order
OrderByDate(tbl, S) ==
    {q \in [1..Cardinality(S) -> S] :
        /\ \A a, b \in 1..Cardinality(S) : a # b => q[a] # q[b]
        /\ \A a, b \in 1..Cardinality(S) : a < b => tbl[q[a]].date <= tbl[q[b]].date}

\* pay = min(entry.due, remaining)
Pay(due, rem) == Min(due, rem)

\* Variant of PaidAfter: paid left as it was.
PaidAfter_NotCredited(paid, pay) == paid

\* entry.paid += pay
PaidAfter(paid, pay) == paid + pay

\* entry.due -= pay
DueAfter(due, pay) == due - pay

\* Variant of RemainingAfter: remaining not decremented.
RemainingAfter_NotDecremented(rem, pay) == rem

\* remaining -= pay
RemainingAfter(rem, pay) == rem - pay

\* POST /clear_dues up to the loop: read the form, run the query
clear_dues_begin ==
    /\ pc = "idle"
    /\ \E m_name \in Merchants, amount_paid \in AmountInputs :
         \E q \in OrderByDate(entries, DueEntries(entries, m_name)) :
            /\ queue' = q
            /\ remaining' = amount_paid
            /\ last' = [op |-> "settle", pre |-> entries, m_name |-> m_name,
                        amount_paid |-> amount_paid, updated |-> 0]
    /\ sess' = entries
    /\ pc' = "loop"
    /\ UNCHANGED <<entries, now>>

\* one iteration of "for entry in entries" that does not break
clear_dues_step ==
    /\ pc = "loop"
    /\ queue # <<>>
    /\ ~(remaining <= 0)
    /\ LET k == Head(queue)
           pay == Pay(sess[k].due, remaining)
       IN /\ sess' = [sess EXCEPT ![k].paid = PaidAfter(@, pay),
                                  ![k].due = DueAfter(@, pay)]
          /\ remaining' = RemainingAfter(remaining, pay)
    /\ queue' = Tail(queue)
    /\ last' = [last EXCEPT !.updated = @ + 1]
    /\ UNCHANGED <<entries, now, pc>>

\* the loop ends (exhausted, or break) and db.session.commit() succeeds
clear_dues_commit ==
    /\ pc = "loop"
    /\ (queue = <<>> \/ remaining <= 0)
    /\ entries' = sess
    /\ pc' = "idle"
    /\ sess' = <<>>
    /\ queue' = <<>>
    /\ remaining' = 0
    /\ last' = [last EXCEPT !.op = "settled"]
    /\ UNCHANGED now

\* Variant of clear_dues_fail: the updates made so far are committed.
clear_dues_fail_PartialCommit ==
    /\ pc = "loop"
    /\ pc' = "idle"
    /\ entries' = sess
    /\ sess' = <<>>
    /\ queue' = <<>>
    /\ remaining' = 0
    /\ last' = [op |-> "settle_failed", pre |-> last.pre, updated |-> last.updated]
    /\ UNCHANGED now

\* the request fails before its commit completes (an exception in the
\* loop, or the commit raising): the session is discarded uncommitted
clear_dues_fail ==
    /\ pc = "loop"
    /\ pc' = "idle"
    /\ sess' = <<>>
    /\ queue' = <<>>
    /\ remaining' = 0
    /\ last' = [op |-> "settle_failed", pre |-> last.pre, updated |-> last.updated]
    /\ UNCHANGED <<entries, now>>

\* --------------------------------------------------- dairy_daily_summary
\* DataRequired + NumberRange(min=0) on total_cash_income
ReportFormValid(total_cash_income) == total_cash_income > 0

\* DairyEntry.query.filter_by(date=report_date).all()
DailyEntries(tbl, report_date) ==
    {k \in DOMAIN tbl : tbl[k].date = report_date}

\* the subquery: one row (m_name, item, max(created_at)) per pair of the date
unique_dues_query(tbl, report_date) ==
    {[m_name |-> tbl[k].m_name, item |-> tbl[k].item,
      latest_created_at |-> tbl[k].created_at] :
        k \in {x \in DailyEntries(tbl, report_date) :
                 \A y \in DailyEntries(tbl, report_date) :
                    (tbl[y].m_name = tbl[x].m_name /\ tbl[y].item = tbl[x].item)
                        => tbl[y].created_at <= tbl[x].created_at}}

\* sum(DairyEntry.due) over the join of the table with the subquery
latest_dues_for_day(tbl, report_date) ==
    SumOver(tbl,
            {k \in DOMAIN tbl :
               \E g \in unique_dues_query(tbl, report_date) :
                  /\ tbl[k].m_name = g.m_name
                  /\ tbl[k].item = g.item
                  /\ tbl[k].created_at = g.latest_created_at},
            "due")

\* Variant of ReportData: a date without entries gets a zero-valued report.
ReportData_ZeroOnEmpty(tbl, report_date, total_cash_income) ==
    IF ~ReportFormValid(total_cash_income)
    THEN [outcome |-> "invalid"]
    ELSE [outcome |-> "report",
          date |-> report_date,
          total_cost_dairy |-> SumOver(tbl, DailyEntries(tbl, report_date), "cost"),
          total_paid_dairy |-> SumOver(tbl, DailyEntries(tbl, report_date), "paid"),
          total_cash_income |-> total_cash_income,
          profit_loss |-> total_cash_income
                            - SumOver(tbl, DailyEntries(tbl, report_date), "cost"),
          total_dues_today |-> latest_dues_for_day(tbl, report_date)]

\* what the handler hands to the template
ReportData(tbl, report_date, total_cash_income) ==
    IF ~ReportFormValid(total_cash_income)
    THEN [outcome |-> "invalid"]
    ELSE IF DailyEntries(tbl, report_date) = {}
    THEN [outcome |-> "no_data"]
    ELSE LET total_cost_dairy == SumOver(tbl, DailyEntries(tbl, report_date), "cost")
             total_paid_dairy == SumOver(tbl, DailyEntries(tbl, report_date), "paid")
         IN [outcome |-> "report",
             date |-> report_date,
             total_cost_dairy |-> total_cost_dairy,
             total_paid_dairy |-> total_paid_dairy,
             total_cash_income |-> total_cash_income,
             profit_loss |-> total_cash_income - total_cost_dairy,
             total_dues_today |-> latest_dues_for_day(tbl, report_date)]

dairy_daily_summary ==
    /\ pc = "idle"
    /\ \E report_date \in Dates, total_cash_income \in IncomeInputs :
         last' = IF ReportFormValid(total_cash_income)
                 THEN [op |-> "summary", pre |-> entries,
                       report_date |-> report_date,
                       total_cash_income |-> total_cash_income,
                       report_data |-> ReportData(entries, report_date, total_cash_income)]
                 ELSE [op |-> "summary_invalid", pre |-> entries,
                       report_data |-> ReportData(entries, report_date, total_cash_income)]
    /\ UNCHANGED <<entries, now, pc, sess, queue, remaining>>

\* ---------------------------------------------------------- specification
Init ==
    /\ entries = <<>>
    /\ now = 0
    /\ pc = "idle"
    /\ sess = <<>>
    /\ queue = <<>>
    /\ remaining = 0
    /\ last = [op |-> "none", pre |-> <<>>]

Next ==
    \/ add_dairy_entry
    \/ clear_dues_begin
    \/ clear_dues_step
    \/ clear_dues_commit
    \/ clear_dues_fail
    \/ dairy_daily_summary

Spec == Init /\ [][Next]_vars

\* ================================================================ claims
\* The entry the last add-entry request created.
Created == entries[Len(entries)]

\* Entries of the pair (m, i) dated d.
PairEntriesOn(tbl, d, m, i) ==
    {k \in DOMAIN tbl : tbl[k].date = d /\ tbl[k].m_name = m /\ tbl[k].item = i}

\* Those of S with the greatest created_at.
GreatestCreated(tbl, S) ==
    {k \in S : \A j \in S : tbl[k].created_at >= tbl[j].created_at}

\* The entries of the created entry's pair on the day before its date.
DayBefore == PairEntriesOn(last.pre, Created.date - 1, Created.m_name, Created.item)

\* C1: an entry created for (D, M, I) with cost c and paid p has
\* due = carried + c - p, carried being the due of the entry with the
\* greatest created_at among those of (M, I) dated D-1, and 0 when there is
\* none, whatever (M, I) owes on earlier dates.
C1_CarryFromDayBefore ==
    last.op = "add" =>
        /\ DayBefore = {} => Created.due = Created.cost - Created.paid
        /\ DayBefore # {} =>
              \E k \in GreatestCreated(last.pre, DayBefore) :
                 Created.due = last.pre[k].due + Created.cost - Created.paid

\* C1 witness: an entry was created after a gap: its pair owes on an earlier
\* date, has nothing on the day before, and the new due is cost - paid.
C1_Witness ==
    /\ last.op = "add"
    /\ DayBefore = {}
    /\ \E k \in DOMAIN last.pre :
          /\ last.pre[k].m_name = Created.m_name
          /\ last.pre[k].item = Created.item
          /\ last.pre[k].date < Created.date - 1
          /\ last.pre[k].due > 0
    /\ Created.due = Created.cost - Created.paid

\* C2 as stated: the created entry's due is e1.due + cost - paid for EVERY
\* entry e1 of its pair on the day before.
C2_EveryDayBeforeEntry ==
    last.op = "add" =>
        \A k \in DayBefore :
           Created.due = last.pre[k].due + Created.cost - Created.paid

\* C2 amended: when the pair has entries on the day before, the created
\* entry's due is e1.due + cost - paid for an entry e1 having the greatest
\* created_at among them.
C2_LatestDayBeforeEntry ==
    (last.op = "add" /\ DayBefore # {}) =>
        \E k \in GreatestCreated(last.pre, DayBefore) :
           Created.due = last.pre[k].due + Created.cost - Created.paid

\* C2 witness: the day before holds several entries of the pair with
\* different dues and different created_at, and the new entry carried the
\* latest one's due.
C2_Witness ==
    /\ last.op = "add"
    /\ \E j, k \in DayBefore :
          /\ last.pre[j].due # last.pre[k].due
          /\ last.pre[j].created_at < last.pre[k].created_at
          /\ GreatestCreated(last.pre, DayBefore) = {k}
          /\ Created.due = last.pre[k].due + Created.cost - Created.paid

\* C3: a settlement call, whatever its amount, raises no entry's due and
\* takes no entry from due >= 0 to due < 0.
C3_SettleNeverRaisesNorOverdraws ==
    last.op = "settled" =>
        \A k \in DOMAIN last.pre :
           /\ entries[k].due <= last.pre[k].due
           /\ last.pre[k].due >= 0 => entries[k].due >= 0

\* C3 witness: a settlement cleared an entry with money to spare, next to an
\* entry whose due is negative.
C3_Witness ==
    /\ last.op = "settled"
    /\ \E k \in DOMAIN last.pre :
          /\ last.pre[k].due > 0
          /\ last.pre[k].due < last.amount_paid
          /\ entries[k].due = 0
    /\ \E k \in DOMAIN last.pre :
          last.pre[k].m_name = last.m_name /\ last.pre[k].due < 0

\* Sum of due over the entries of merchant m that owe (due > 0).
Outstanding(tbl, m) ==
    SumOver(tbl, {k \in DOMAIN tbl : tbl[k].m_name = m /\ tbl[k].due > 0}, "due")

\* C4: with T the merchant's outstanding total, settle(M, P), P >= 0, leaves
\* T - P when P <= T and 0 when P > T; a surplus goes to no entry (the paid
\* columns grow by min(P, T) in all).
C4_SettleTotals ==
    (last.op = "settled" /\ last.amount_paid >= 0) =>
        LET T == Outstanding(last.pre, last.m_name)
            P == last.amount_paid
        IN /\ P <= T => Outstanding(entries, last.m_name) = T - P
           /\ P > T => Outstanding(entries, last.m_name) = 0
           /\ SumOver(entries, DOMAIN entries, "paid")
                 - SumOver(last.pre, DOMAIN last.pre, "paid") = Min(P, T)

\* C4 witness: a settlement of more than the merchant owed completed.
C4_Witness ==
    /\ last.op = "settled"
    /\ Outstanding(last.pre, last.m_name) > 0
    /\ last.amount_paid > Outstanding(last.pre, last.m_name)
    /\ Outstanding(entries, last.m_name) = 0

\* C5: oldest first: of two owing entries a, b of the settled merchant with
\* a.date < b.date, b is reduced only if a ends at 0; at most one entry is
\* left partially paid.
C5_OldestFirst ==
    last.op = "settled" =>
        LET Owing == {k \in DOMAIN last.pre :
                        last.pre[k].m_name = last.m_name /\ last.pre[k].due > 0}
        IN /\ \A a, b \in Owing :
                 (last.pre[a].date < last.pre[b].date
                    /\ entries[b].due < last.pre[b].due) => entries[a].due = 0
           /\ Cardinality({k \in Owing : /\ entries[k].due < last.pre[k].due
                                         /\ entries[k].due > 0}) <= 1

\* C5 witness: a settlement cleared an older entry and partly paid a later one.
C5_Witness ==
    /\ last.op = "settled"
    /\ \E a, b \in DOMAIN last.pre :
          /\ last.pre[a].m_name = last.m_name
          /\ last.pre[b].m_name = last.m_name
          /\ last.pre[a].date < last.pre[b].date
          /\ last.pre[a].due > 0
          /\ entries[a].due = 0
          /\ entries[b].due < last.pre[b].due
          /\ entries[b].due > 0

\* C6: while a settlement is under way, and after it has failed, the
\* committed table is the table from before the call: none of the call's
\* updates is persisted unless all are.
C6_AllOrNothing ==
    (pc = "loop" \/ last.op = "settle_failed") => entries = last.pre

\* C6 witness: a settlement failed after it had updated an entry.
C6_Witness ==
    /\ last.op = "settle_failed"
    /\ last.updated >= 1
    /\ \E k \in DOMAIN entries : entries[k].due > 0

\* The (merchant, item) pairs having an entry dated R.
PairsOn(tbl, R) ==
    {<<tbl[k].m_name, tbl[k].item>> : k \in {x \in DOMAIN tbl : tbl[x].date = R}}

RECURSIVE SumChosen(_, _, _)
\* Sum of due over the entries f picks for the pairs of P.
SumChosen(tbl, f, P) ==
    IF P = {} THEN 0
    ELSE LET q == CHOOSE x \in P : TRUE
         IN tbl[f[q]].due + SumChosen(tbl, f, P \ {q})

\* The totals that count, for each pair of R, exactly one entry: one of the
\* pair dated R with the greatest created_at.
OnePerPairTotals(tbl, R) ==
    {SumChosen(tbl, f, PairsOn(tbl, R)) :
        f \in {g \in [PairsOn(tbl, R) -> DOMAIN tbl] :
                 \A q \in PairsOn(tbl, R) :
                    g[q] \in GreatestCreated(tbl, PairEntriesOn(tbl, R, q[1], q[2]))}}

\* No two entries share a created_at.
DistinctCreated(tbl) ==
    \A j, k \in DOMAIN tbl : j # k => tbl[j].created_at # tbl[k].created_at

\* C7 restricted to tables without shared created_at values (holds).
C7_OneEntryPerPairDistinctCreated ==
    (last.op = "summary" /\ last.report_data.outcome = "report"
       /\ DistinctCreated(last.pre)) =>
        last.report_data.total_dues_today
            \in OnePerPairTotals(last.pre, last.report_date)

\* C7 as stated: total_dues_today counts exactly one entry per pair of the
\* report date, the pair's latest on that date, whatever the table holds.
C7_OneEntryPerPair ==
    (last.op = "summary" /\ last.report_data.outcome = "report") =>
        last.report_data.total_dues_today
            \in OnePerPairTotals(last.pre, last.report_date)

\* Fields fixed at creation.
SameCreation(a, b) ==
    /\ a.id = b.id
    /\ a.date = b.date
    /\ a.m_name = b.m_name
    /\ a.item = b.item
    /\ a.weight = b.weight
    /\ a.unit = b.unit
    /\ a.price_per_unit = b.price_per_unit
    /\ a.cost = b.cost
    /\ a.created_at = b.created_at

\* C8: no request removes an entry or changes its creation fields; paid and
\* due change only in a settlement of the entry's merchant and only for an
\* entry that owed when the call began; add-entry only appends; the summary
\* and rejected or failed requests change nothing.
C8_Frame ==
    /\ Len(entries) >= Len(last.pre)
    /\ \A k \in DOMAIN last.pre :
          /\ SameCreation(entries[k], last.pre[k])
          /\ entries[k] # last.pre[k] =>
                /\ last.op = "settled"
                /\ last.pre[k].m_name = last.m_name
                /\ last.pre[k].due > 0
    /\ last.op = "add" => Len(entries) = Len(last.pre) + 1
    /\ last.op # "add" => Len(entries) = Len(last.pre)

\* C8 witness: a settlement changed an entry of its merchant and left alone
\* an owing entry of another merchant.
C8_Witness ==
    /\ last.op = "settled"
    /\ \E k \in DOMAIN last.pre : entries[k] # last.pre[k]
    /\ \E k \in DOMAIN last.pre :
          /\ last.pre[k].m_name # last.m_name
          /\ last.pre[k].due > 0
          /\ entries[k] = last.pre[k]

\* C9: a validated summary request gives no-data, with no summary values,
\* exactly when the date has no entry; otherwise a report whose total cost
\* and total paid are the sums over the date's entries and whose profit/loss
\* is cash income - total cost.
C9_NoDataOrTotals ==
    last.op = "summary" =>
        LET Day == {k \in DOMAIN last.pre : last.pre[k].date = last.report_date}
            r == last.report_data
        IN /\ Day = {} => (r.outcome = "no_data" /\ DOMAIN r = {"outcome"})
           /\ Day # {} =>
                 /\ r.outcome = "report"
                 /\ r.total_cost_dairy = SumOver(last.pre, Day, "cost")
                 /\ r.total_paid_dairy = SumOver(last.pre, Day, "paid")
                 /\ r.profit_loss = last.total_cash_income - r.total_cost_dairy

\* C9 witness: a summary of a date without entries, asked of a table that
\* holds entries of other dates, gave no-data.
C9_Witness ==
    /\ last.op = "summary"
    /\ last.pre # <<>>
    /\ \A k \in DOMAIN last.pre : last.pre[k].date # last.report_date
    /\ last.report_data.outcome = "no_data"

\* C10: a settlement keeps paid + due of every entry; a settlement of an
\* amount <= 0 changes no entry.
C10_PaidPlusDueKept ==
    last.op = "settled" =>
        /\ \A k \in DOMAIN last.pre :
              entries[k].paid + entries[k].due = last.pre[k].paid + last.pre[k].due
        /\ last.amount_paid <= 0 => entries = last.pre

\* C10 witness: a settlement moved part of an entry's due to its paid.
C10_Witness ==
    /\ last.op = "settled"
    /\ \E k \in DOMAIN last.pre :
          /\ entries[k].paid > last.pre[k].paid
          /\ entries[k].due > 0
====
